---- MODULE Spec2Model ----
(***************************************************************************)
(* A model of tiny-unzip's ZipReader (src/tiny-unzip.js): the binary       *)
(* record decoder, the four record schemas, the forward scanner of read(), *)
(* the end-of-central-directory locator, the name lookup and extract().    *)
(*                                                                         *)
(* The ArrayBuffer is modelled byte for byte.  A buffer is the record      *)
(* [pre, fill, post]: the bytes of pre, then fill copies of FillByte, then *)
(* the bytes of post (a run-length form, so that a buffer longer than      *)
(* 64 KiB stays small).  Offsets are 0-based as in the code.               *)
(***************************************************************************)
EXTENDS Integers, Sequences, FiniteSets, TLC

VARIABLES
    arch,                   \* how the buffer was built (the test input; never read by the code)
    buf,                    \* this.dataView
    index,                  \* this.index
    localFiles,             \* this.localFiles
    centralDirectories,     \* this.centralDirectories
    endOfCentralDirectory,  \* this.endOfCentralDirectory
    backwardIndex,          \* this.backwardIndex
    pc,                     \* position inside read(): "idle" between calls
    useCentralDirectory,    \* the argument of the running read()
    hotSpot,                \* i of the hot-spot loop of the running read()
    ret,                    \* outcome of the last finished call
    log                     \* what every finished read() left behind

vars == <<arch, buf, index, localFiles, centralDirectories, endOfCentralDirectory,
          backwardIndex, pc, useCentralDirectory, hotSpot, ret, log>>

----------------------------------------------------------------------------
(* Bounds of the model *)

MaxEntries == 3
MaxComment == 1
MaxReads == 2
HugePad == 65600

(* Program constants *)

LocalFileSignature == 67324752
DataDescriptorSignature == 134695760
CentralDirectorySignature == 33639248
EndOfCentralDirectorySignature == 101010256
HotSpotTail == 22
HotSpotJump == 65536
BruteForceTail == 23

FillByte == 120

Undefined == [structType |-> "undefined"]
NoIndex == 0 - 1

----------------------------------------------------------------------------
(* DataView *)

byteLength(b) == Len(b.pre) + b.fill + Len(b.post)

ByteAt(b, o) ==
    IF o < Len(b.pre) THEN b.pre[o + 1]
    ELSE IF o < Len(b.pre) + b.fill THEN FillByte
    ELSE b.post[o - Len(b.pre) - b.fill + 1]

\* DataView getters raise a RangeError outside the buffer
InBounds(b, o, n) == o >= 0 /\ o + n <= byteLength(b)

RECURSIVE LittleEndian(_, _, _)
LittleEndian(b, o, n) ==
    IF n = 0 THEN 0 ELSE ByteAt(b, o) + 256 * LittleEndian(b, o + 1, n - 1)

getUint32(b, o) == LittleEndian(b, o, 4)

RECURSIVE Chars(_, _, _)
Chars(b, o, n) ==
    IF n = 0 THEN <<>> ELSE <<ByteAt(b, o)>> \o Chars(b, o + 1, n - 1)

----------------------------------------------------------------------------
(* readStruct *)

Threw(kind) == [threw |-> TRUE, error |-> kind]
Returned(v) == [threw |-> FALSE, val |-> v]

Num(name, length) == [name |-> name, length |-> length, ref |-> ""]
Str(name, ref) == [name |-> name, length |-> 0, ref |-> ref]

EmptyStruct == [k \in {} |-> 0]

RECURSIVE readFields(_, _, _, _, _, _)
readFields(b, fields, offset, i, struct, totalLength) ==
    IF i > Len(fields)
    THEN Returned(struct @@ ("totalLength" :> totalLength))
    ELSE LET field == fields[i] IN
         IF field.ref = ""
         THEN IF field.length \notin {1, 2, 4, 8}
              THEN Threw("Unsupported length")
              ELSE IF ~InBounds(b, offset + totalLength, field.length)
              THEN Threw("RangeError")
              ELSE readFields(b, fields, offset, i + 1,
                              struct @@ (field.name :>
                                  LittleEndian(b, offset + totalLength, field.length)),
                              totalLength + field.length)
         ELSE LET n == struct[field.ref] IN
              IF n > 0 /\ ~InBounds(b, offset + totalLength, n)
              THEN Threw("RangeError")
              ELSE readFields(b, fields, offset, i + 1,
                              struct @@ (field.name :> Chars(b, offset + totalLength, n)),
                              totalLength + n)

readStruct(b, fields, offset) == readFields(b, fields, offset, 1, EmptyStruct, 0)

----------------------------------------------------------------------------
(* Record schemas *)

LocalFileFields == <<
    Num("signature", 4), Num("version", 2), Num("generalPurpose", 2),
    Num("compressionMethod", 2), Num("lastModifiedTime", 2), Num("lastModifiedDate", 2),
    Num("crc", 4), Num("compressedSize", 4), Num("uncompressedSize", 4),
    Num("fileNameLength", 2), Num("extraLength", 2),
    Str("fileName", "fileNameLength"), Str("extra", "extraLength") >>

CentralDirectoryFields == <<
    Num("signature", 4), Num("versionCreated", 2), Num("versionNeeded", 2),
    Num("generalPurpose", 2), Num("compressionMethod", 2), Num("lastModifiedTime", 2),
    Num("lastModifiedDate", 2), Num("crc", 4), Num("compressedSize", 4),
    Num("uncompressedSize", 4), Num("fileNameLength", 2), Num("extraLength", 2),
    Num("fileCommentLength", 2), Num("diskNumber", 2), Num("internalAttributes", 2),
    Num("externalAttributes", 4), Num("offset", 4),
    Str("fileName", "fileNameLength"), Str("extra", "extraLength"),
    Str("comments", "fileCommentLength") >>

DataDescriptorFields == <<
    Num("signature", 4), Num("crc", 4), Num("compressedSize", 4),
    Num("uncompressedSize", 4) >>

EndCentralDirectoryFields == <<
    Num("signature", 4), Num("numberOfDisks", 2), Num("centralDirectoryStartDisk", 2),
    Num("numberCentralDirectoryRecordsOnThisDisk", 2),
    Num("numberCentralDirectoryRecords", 2), Num("centralDirectorySize", 4),
    Num("centralDirectoryOffset", 4), Num("commentLength", 2),
    Str("comment", "commentLength") >>

\* generalPurpose & 0x08
Bit3(generalPurpose) == (generalPurpose \div 8) % 2 = 1

\* needsDataDescriptor and enrichedByDataDescriptor are absent (undefined, falsy)
\* until the code sets them to true; FALSE stands for absent.
readLocalFile(b, offset) ==
    LET r == readStruct(b, LocalFileFields, offset) IN
    IF r.threw THEN r
    ELSE Returned(r.val @@ [structType |-> "localFile",
                            needsDataDescriptor |-> Bit3(r.val.generalPurpose),
                            enrichedByDataDescriptor |-> FALSE,
                            startsAt |-> offset + r.val.totalLength])

\* readAt is where the header was decoded: the identity of the entry object
readCentralDirectory(b, offset) ==
    LET r == readStruct(b, CentralDirectoryFields, offset) IN
    IF r.threw THEN r
    ELSE Returned(r.val @@ [structType |-> "centralDirectory", readAt |-> offset])

readDataDescriptor(b, offset) ==
    LET r == readStruct(b, DataDescriptorFields, offset) IN
    IF r.threw THEN r
    ELSE Returned(r.val @@ [structType |-> "dataDescriptor"])

readEndCentralDirectory(b, offset) ==
    LET r == readStruct(b, EndCentralDirectoryFields, offset) IN
    IF r.threw THEN r
    ELSE Returned(r.val @@ [structType |-> "endOfCentralDirectory", readAt |-> offset])

----------------------------------------------------------------------------
(* The archives read() is run on.  An archive is described by the sequence *)
(* of its members (each one of the member kinds below), the length of the  *)
(* EOCD comment, the number of fill bytes added to the first member's data *)
(* and the damage done to it; Build lays it out as a ZIP encoder would:    *)
(* local header, data, optional Data Descriptor per member, then the       *)
(* central directory, then the EOCD record and its comment.                *)

LE(n, v) == [i \in 1..n |-> (v \div (256 ^ (i - 1))) % 256]

\* "x", an empty stored member: the headers of a ZIP fragment kept as data
FragmentCentral ==
    LE(4, CentralDirectorySignature) \o LE(2, 20) \o LE(2, 20) \o LE(2, 0) \o LE(2, 0)
    \o LE(2, 0) \o LE(2, 0) \o LE(4, 0) \o LE(4, 0) \o LE(4, 0) \o LE(2, 1) \o LE(2, 0)
    \o LE(2, 0) \o LE(2, 0) \o LE(2, 0) \o LE(4, 0) \o LE(4, 0) \o <<120>>
FragmentLocal ==
    LE(4, LocalFileSignature) \o LE(2, 20) \o LE(2, 0) \o LE(2, 0) \o LE(2, 0)
    \o LE(2, 0) \o LE(4, 0) \o LE(4, 0) \o LE(4, 0) \o LE(2, 1) \o LE(2, 0) \o <<120>>

\* member kinds: name, general-purpose flags, method, data, crc, uncompressed size
Kind(k) ==
    CASE k = "A" -> [name |-> <<97>>, gp |-> 0, method |-> 0, data |-> <<>>,
                     crc |-> 0, usize |-> 0]
      [] k = "B" -> [name |-> <<98>>, gp |-> 0, method |-> 8, data |-> <<75, 4>>,
                     crc |-> 51, usize |-> 5]
      [] k = "D" -> [name |-> <<98>>, gp |-> 8, method |-> 0, data |-> <<104, 105>>,
                     crc |-> 52, usize |-> 2]
      [] k = "E" -> [name |-> <<97>>, gp |-> 8, method |-> 0, data |-> <<>>,
                     crc |-> 0, usize |-> 0]
      [] k = "X" -> [name |-> <<99>>, gp |-> 0, method |-> 12, data |-> <<7>>,
                     crc |-> 53, usize |-> 9]
      [] k = "N" -> [name |-> <<110>>, gp |-> 0, method |-> 0,
                     data |-> FragmentCentral \o FragmentLocal,
                     crc |-> 54, usize |-> Len(FragmentCentral \o FragmentLocal)]

\* the kinds every sequence of which is read, and the sequences with the others
Kinds == {"A", "D", "E", "N"}
Others == {<<"X">>, <<"B">>, <<"X", "D">>, <<"A", "X">>, <<"A", "A", "X">>}

\* the members of an archive with their sizes: the pad lengthens the first one
Member(a, i) ==
    LET k == Kind(a.ents[i])
        pad == IF i = 1 THEN a.pad ELSE 0
    IN  k @@ [csize |-> Len(k.data) + pad,
              usize2 |-> IF k.method = 0 THEN Len(k.data) + pad ELSE k.usize,
              deferred |-> Bit3(k.gp)]

MemberLength(a, i) ==
    LET m == Member(a, i) IN
    30 + Len(m.name) + m.csize + (IF m.deferred THEN 16 ELSE 0)

RECURSIVE MemberOffset(_, _)
MemberOffset(a, i) ==
    IF i = 1 THEN 0 ELSE MemberOffset(a, i - 1) + MemberLength(a, i - 1)

LocalHeaderBytes(m) ==
    LE(4, LocalFileSignature) \o LE(2, 20) \o LE(2, m.gp) \o LE(2, m.method)
    \o LE(2, 0) \o LE(2, 0)
    \o LE(4, IF m.deferred THEN 0 ELSE m.crc)
    \o LE(4, IF m.deferred THEN 0 ELSE m.csize)
    \o LE(4, IF m.deferred THEN 0 ELSE m.usize2)
    \o LE(2, Len(m.name)) \o LE(2, 0) \o m.name

DescriptorBytes(m) ==
    IF m.deferred
    THEN LE(4, DataDescriptorSignature) \o LE(4, m.crc) \o LE(4, m.csize) \o LE(4, m.usize2)
    ELSE <<>>

CentralHeaderBytes(m, offset) ==
    LE(4, CentralDirectorySignature) \o LE(2, 20) \o LE(2, 20) \o LE(2, m.gp)
    \o LE(2, m.method) \o LE(2, 0) \o LE(2, 0) \o LE(4, m.crc) \o LE(4, m.csize)
    \o LE(4, m.usize2) \o LE(2, Len(m.name)) \o LE(2, 0) \o LE(2, 0) \o LE(2, 0)
    \o LE(2, 0) \o LE(4, 0) \o LE(4, offset) \o m.name

\* damage "offsets": every central header points at offset 0
\* members i.. of the archive, without the fill bytes of the first
RECURSIVE LocalBytes(_, _)
LocalBytes(a, i) ==
    IF i > Len(a.ents) THEN <<>>
    ELSE LET m == Member(a, i) IN
         LocalHeaderBytes(m) \o m.data \o DescriptorBytes(m) \o LocalBytes(a, i + 1)

RECURSIVE CentralBytes(_, _)
CentralBytes(a, i) ==
    IF i > Len(a.ents) THEN <<>>
    ELSE CentralHeaderBytes(Member(a, i),
                            IF a.damage = "offsets" THEN 0 ELSE MemberOffset(a, i))
         \o CentralBytes(a, i + 1)

CentralOffset(a) ==
    IF a.ents = <<>> THEN 0 ELSE MemberOffset(a, Len(a.ents)) + MemberLength(a, Len(a.ents))

\* four bytes no record starts with, between the central directory and the EOCD
JunkBytes == <<80, 75, 6, 7>>

EndOffset(a) ==
    CentralOffset(a) + Len(CentralBytes(a, 1)) + (IF a.damage = "junk" THEN Len(JunkBytes) ELSE 0)

EndBytes(a) ==
    LE(4, EndOfCentralDirectorySignature) \o LE(2, 0) \o LE(2, 0) \o LE(2, Len(a.ents))
    \o LE(2, Len(a.ents)) \o LE(4, Len(CentralBytes(a, 1)))
    \o LE(4, CentralOffset(a) + (IF a.damage = "start" THEN 1 ELSE 0))
    \o LE(2, a.comment) \o [i \in 1..a.comment |-> FillByte]

Prefix(s, n) == SubSeq(s, 1, IF n < Len(s) THEN n ELSE Len(s))

\* the buffer: pre ends with the first member's own data, the fill follows it
Build(a) ==
    LET head == IF a.ents = <<>> THEN <<>>
                ELSE LocalHeaderBytes(Member(a, 1)) \o Member(a, 1).data
        all == LocalBytes(a, 1) \o CentralBytes(a, 1)
               \o (IF a.damage = "junk" THEN JunkBytes ELSE <<>>) \o EndBytes(a)
               \o (IF a.damage = "tail" THEN <<0>> ELSE <<>>)
        rest == SubSeq(all, Len(head) + 1, Len(all))
    IN  IF a.damage = "cut"
        THEN [pre |-> Prefix(all, a.keep), fill |-> 0, post |-> <<>>]
        ELSE [pre |-> head, fill |-> a.pad, post |-> rest]

RECURSIVE SeqsUpTo(_, _)
SeqsUpTo(S, n) ==
    IF n = 0 THEN {<<>>}
    ELSE LET shorter == SeqsUpTo(S, n - 1) IN
         shorter \cup {Append(s, x) : s \in shorter, x \in S}

\* well-formed archives
Sound ==
    {[ents |-> e, comment |-> c, pad |-> 0, damage |-> "none", keep |-> 0] :
        e \in SeqsUpTo(Kinds, MaxEntries) \cup Others, c \in 0..MaxComment}

\* archives longer than 64 KiB
Huge ==
    {[ents |-> e, comment |-> c, pad |-> HugePad, damage |-> "none", keep |-> 0] :
        e \in {<<"D">>, <<"B">>, <<"B", "D">>}, c \in 0..MaxComment}

\* archives with four foreign bytes before the EOCD, truncated archives,
\* archives whose central headers all point at the first member, archives
\* followed by one more byte ("tail") and archives whose EOCD record points one
\* byte past the start of the central directory ("start")
Damaged ==
    {[ents |-> e, comment |-> 0, pad |-> 0, damage |-> "junk", keep |-> 0] :
        e \in SeqsUpTo(Kinds \cup {"B", "X"}, 1)}
    \cup {[ents |-> e, comment |-> 0, pad |-> 0, damage |-> "cut", keep |-> k] :
        e \in {<<>>, <<"B">>, <<"D">>, <<"N">>}, k \in {3, 21, 32, 60}}
    \cup {[ents |-> e, comment |-> 0, pad |-> 0, damage |-> "offsets", keep |-> 0] :
        e \in {<<"A", "X">>, <<"X", "A">>, <<"N", "D">>}}
    \cup {[ents |-> <<"E">>, comment |-> 0, pad |-> 0, damage |-> "cut", keep |-> 40]}
    \cup {[ents |-> <<"D">>, comment |-> c, pad |-> 0, damage |-> d, keep |-> 0] :
        c \in 0..MaxComment, d \in {"tail", "start"}}

\* well-formed archives of a member of 79 bytes and an empty member with bit 3
\* set: 2 * (31 + 79) + 31, where the cursor is after the second header, is
\* where the EOCD record starts
Aligned ==
    {[ents |-> <<"A", "E">>, comment |-> c, pad |-> 79, damage |-> "none", keep |-> 0] :
        c \in 0..MaxComment}

Archives == Sound \cup Huge \cup Damaged \cup Aligned

----------------------------------------------------------------------------
(* The reader.  The step operators below work on the reader's fields held  *)
(* in a record r; at = "scan", "hot", "brute" is the loop of read() that   *)
(* runs next, "idle" means read() has returned or thrown (error says       *)
(* which).                                                                 *)

Continue(r, at) == [r EXCEPT !.pc = at]
Throw(r, kind) == [r EXCEPT !.pc = "idle", !.error = kind]

Last(s) == s[Len(s)]

\* a lookup that keeps searching and returns the last match
RECURSIVE lastMatch(_, _, _)
lastMatch(heap, name, i) ==
    IF i > Len(heap) THEN Undefined
    ELSE LET later == lastMatch(heap, name, i + 1) IN
         IF later # Undefined THEN later
         ELSE IF heap[i].fileName = name THEN heap[i]
         ELSE Undefined

RECURSIVE firstMatch(_, _, _)
firstMatch(heap, name, i) ==
    IF i > Len(heap) THEN Undefined
    ELSE IF heap[i].fileName = name THEN heap[i]
    ELSE firstMatch(heap, name, i + 1)

entryByFileName(r, name, useCD) ==
    firstMatch(IF useCD THEN r.centralDirectories ELSE r.localFiles, name, 1)

\* the condition of the forward loop
Scanning(b, r) == r.index + 4 < byteLength(b)

\* the condition of the backward loop
Seeking(r) ==
    r.endOfCentralDirectory = Undefined /\ r.backwardIndex > 0 /\ r.backwardIndex > r.index

\* what follows the forward loop: the return of read(true), the hot spots when
\* no EOCD record is known, else the assignment of backwardIndex and the backward loop
afterHotSpots(b, r) ==
    LET q == [r EXCEPT !.backwardIndex = byteLength(b) - BruteForceTail] IN
    Continue(q, IF Seeking(q) THEN "brute" ELSE "idle")

afterScan(b, r, useCD) ==
    IF useCD THEN Continue(r, "idle")
    ELSE IF r.endOfCentralDirectory = Undefined THEN Continue([r EXCEPT !.hotSpot = 0], "hot")
    ELSE afterHotSpots(b, r)

\* the cursor after a local entry at the cursor
advanceLocal(r, entry) == r.index + entry.startsAt + entry.compressedSize

\* a forward loop that goes on after an entry with bit 3 set
scanLocalFileOnward(b, r, useCD) ==
    LET d == readLocalFile(b, r.index) IN
    IF d.threw THEN Throw(r, d.error)
    ELSE LET entry == d.val
             q == [r EXCEPT !.localFiles = Append(@, entry),
                            !.index = advanceLocal(r, entry)]
         IN  IF entry.needsDataDescriptor /\ useCD
             THEN LET cd == entryByFileName(q, entry.fileName, TRUE) IN
                  IF cd = Undefined THEN Throw(q, "TypeError")
                  ELSE Continue([q EXCEPT !.index = @ + cd.compressedSize], "scan")
             ELSE Continue(q, "scan")

scanLocalFile(b, r, useCD) ==
    LET d == readLocalFile(b, r.index) IN
    IF d.threw THEN Throw(r, d.error)
    ELSE LET entry == d.val
             q == [r EXCEPT !.localFiles = Append(@, entry),
                            !.index = advanceLocal(r, entry)]
         IN  IF entry.needsDataDescriptor
             THEN IF useCD
                  THEN LET cd == entryByFileName(q, entry.fileName, TRUE) IN
                       IF cd = Undefined THEN Throw(q, "TypeError")
                       ELSE Continue([q EXCEPT !.index = @ + cd.compressedSize], "scan")
                  ELSE afterScan(b, q, useCD)
             ELSE Continue(q, "scan")

\* a patch that forgets the crc
patchSizesOnly(target, entry) ==
    [target EXCEPT !.compressedSize = entry.compressedSize,
                   !.uncompressedSize = entry.uncompressedSize,
                   !.enrichedByDataDescriptor = TRUE]

patch(target, entry) ==
    [target EXCEPT !.crc = entry.crc,
                   !.compressedSize = entry.compressedSize,
                   !.uncompressedSize = entry.uncompressedSize,
                   !.enrichedByDataDescriptor = TRUE]

\* a Data Descriptor pass that leaves the cursor where it was
scanDataDescriptorInPlace(b, r) ==
    LET d == readDataDescriptor(b, r.index) IN
    IF d.threw THEN Throw(r, d.error)
    ELSE IF r.localFiles = <<>> THEN Throw(r, "TypeError")
    ELSE Continue([r EXCEPT !.localFiles[Len(r.localFiles)] = patch(@, d.val)], "scan")

scanDataDescriptor(b, r) ==
    LET d == readDataDescriptor(b, r.index) IN
    IF d.threw THEN Throw(r, d.error)
    ELSE IF r.localFiles = <<>> THEN Throw(r, "TypeError")
    ELSE Continue([r EXCEPT !.localFiles[Len(r.localFiles)] = patch(@, d.val),
                            !.index = @ + d.val.totalLength], "scan")

scanCentralDirectory(b, r) ==
    LET d == readCentralDirectory(b, r.index) IN
    IF d.threw THEN Throw(r, d.error)
    ELSE Continue([r EXCEPT !.centralDirectories = Append(@, d.val),
                            !.index = @ + d.val.totalLength], "scan")

scanEndCentralDirectory(b, r, useCD) ==
    LET d == readEndCentralDirectory(b, r.index) IN
    IF d.threw THEN Throw(r, d.error)
    ELSE afterScan(b, [r EXCEPT !.endOfCentralDirectory = d.val,
                                !.index = @ + d.val.totalLength], useCD)

\* a forward loop that reads the central directory and the EOCD record in
\* either mode
scanStepInline(b, r, useCD) ==
    IF ~Scanning(b, r) THEN afterScan(b, r, useCD)
    ELSE LET signature == getUint32(b, r.index) IN
         IF signature = LocalFileSignature THEN scanLocalFile(b, r, useCD)
         ELSE IF signature = DataDescriptorSignature THEN scanDataDescriptor(b, r)
         ELSE IF signature = CentralDirectorySignature THEN scanCentralDirectory(b, r)
         ELSE IF signature = EndOfCentralDirectorySignature
              THEN scanEndCentralDirectory(b, r, useCD)
         ELSE afterScan(b, r, useCD)

\* one pass through the body of the forward loop, or its exit
scanStep(b, r, useCD) ==
    IF ~Scanning(b, r) THEN afterScan(b, r, useCD)
    ELSE LET signature == getUint32(b, r.index) IN
         IF signature = LocalFileSignature THEN scanLocalFile(b, r, useCD)
         ELSE IF signature = DataDescriptorSignature THEN scanDataDescriptor(b, r)
         ELSE IF useCD THEN afterScan(b, r, useCD)
         ELSE IF signature = CentralDirectorySignature THEN scanCentralDirectory(b, r)
         ELSE IF signature = EndOfCentralDirectorySignature
              THEN scanEndCentralDirectory(b, r, useCD)
         ELSE afterScan(b, r, useCD)

\* the loop that reads the central directory between readOffset and offset;
\* the entries pushed before a throw stay in the list
RECURSIVE walkCentralDirectory(_, _, _, _)
walkCentralDirectory(b, r, readOffset, offset) ==
    IF ~(readOffset < offset) THEN r
    ELSE LET d == readCentralDirectory(b, readOffset) IN
         IF d.threw THEN Throw(r, d.error)
         ELSE walkCentralDirectory(b,
                  [r EXCEPT !.centralDirectories = Append(@, d.val)],
                  readOffset + d.val.totalLength, offset)

\* found is the returned boolean; the reader q is r after the call (q.error is
\* set when the call threw)
Search(found, q) == [found |-> found, reader |-> q]

\* a search that does not compare the record's length with what is left of
\* the buffer
searchAnyLength(b, r, offset) ==
    IF ~InBounds(b, offset, 4) THEN Search(FALSE, Throw(r, "RangeError"))
    ELSE IF getUint32(b, offset) # EndOfCentralDirectorySignature THEN Search(FALSE, r)
    ELSE LET d == readEndCentralDirectory(b, offset) IN
         IF d.threw THEN Search(FALSE, Throw(r, d.error))
         ELSE IF ~InBounds(b, d.val.centralDirectoryOffset, 4)
              THEN Search(FALSE, Throw(r, "RangeError"))
         ELSE IF getUint32(b, d.val.centralDirectoryOffset) # CentralDirectorySignature
              THEN Search(FALSE, r)
         ELSE LET q == walkCentralDirectory(b,
                           [r EXCEPT !.endOfCentralDirectory = d.val],
                           d.val.centralDirectoryOffset, offset)
              IN  Search(q.error = "", q)

heuristicsCentralDirectorySearch(b, r, offset) ==
    IF ~InBounds(b, offset, 4) THEN Search(FALSE, Throw(r, "RangeError"))
    ELSE IF getUint32(b, offset) # EndOfCentralDirectorySignature THEN Search(FALSE, r)
    ELSE LET d == readEndCentralDirectory(b, offset) IN
         IF d.threw THEN Search(FALSE, Throw(r, d.error))
         ELSE IF d.val.totalLength # byteLength(b) - offset THEN Search(FALSE, r)
         ELSE IF ~InBounds(b, d.val.centralDirectoryOffset, 4)
              THEN Search(FALSE, Throw(r, "RangeError"))
         ELSE IF getUint32(b, d.val.centralDirectoryOffset) # CentralDirectorySignature
              THEN Search(FALSE, r)
         ELSE LET q == walkCentralDirectory(b,
                           [r EXCEPT !.endOfCentralDirectory = d.val],
                           d.val.centralDirectoryOffset, offset)
              IN  Search(q.error = "", q)

hotSpots(b) ==
    LET jumpPos == byteLength(b) - HotSpotJump - HotSpotTail IN
    <<byteLength(b) - HotSpotTail>> \o (IF jumpPos > 0 THEN <<jumpPos>> ELSE <<>>)

\* one pass through the body of the hot-spot loop
hotSpotStep(b, r) ==
    LET s == heuristicsCentralDirectorySearch(b, r, hotSpots(b)[r.hotSpot + 1]) IN
    IF s.reader.error # "" THEN s.reader
    ELSE IF s.found THEN afterHotSpots(b, s.reader)
    ELSE IF r.hotSpot + 1 < Len(hotSpots(b))
         THEN Continue([s.reader EXCEPT !.hotSpot = @ + 1], "hot")
    ELSE afterHotSpots(b, s.reader)

\* one pass through the body of the backward loop
bruteStep(b, r) ==
    LET s == heuristicsCentralDirectorySearch(b, r, r.backwardIndex) IN
    IF s.reader.error # "" THEN s.reader
    ELSE IF s.found THEN Continue(s.reader, "idle")
    ELSE LET q == [s.reader EXCEPT !.backwardIndex = @ - 1] IN
         Continue(q, IF Seeking(q) THEN "brute" ELSE "idle")

\* the loops of read() run to their end: the steps taken while the reader is in
\* one of the given loops
step(b, r, useCD) ==
    IF r.pc = "scan" THEN scanStep(b, r, useCD)
    ELSE IF r.pc = "hot" THEN hotSpotStep(b, r)
    ELSE bruteStep(b, r)

RECURSIVE run(_, _, _, _)
run(b, r, useCD, loops) ==
    IF r.pc \in loops THEN run(b, step(b, r, useCD), useCD, loops) ELSE r

\* ArrayBuffer.slice clamps both ends to the buffer
slice(b, begin, end) ==
    LET lo == IF begin < byteLength(b) THEN begin ELSE byteLength(b)
        hi == IF end < byteLength(b) THEN end ELSE byteLength(b)
    IN  [from |-> lo, size |-> IF hi > lo THEN hi - lo ELSE 0]

\* an extract that hands out the bytes of a method it does not know
extractAnyMethod(b, entry) ==
    LET d == IF entry.structType = "centralDirectory"
             THEN readLocalFile(b, entry.offset) ELSE Returned(entry)
    IN  IF d.threw THEN d
        ELSE LET local == d.val
                 size == IF local.compressedSize # 0 THEN local.compressedSize
                         ELSE entry.compressedSize
                 buffer == slice(b, local.startsAt, local.startsAt + size)
             IN  IF local.compressionMethod = 8
                 THEN Returned([blob |-> "inflated", buffer |-> buffer])
                 ELSE Returned([blob |-> "stored", buffer |-> buffer])

\* extract(entry): the Blob is given by the bytes it is made from; what
\* DecompressionStream makes of them is the platform's
extract(b, entry) ==
    LET d == IF entry.structType = "centralDirectory"
             THEN readLocalFile(b, entry.offset) ELSE Returned(entry)
    IN  IF d.threw THEN d
        ELSE LET local == d.val
                 size == IF local.compressedSize # 0 THEN local.compressedSize
                         ELSE entry.compressedSize
                 buffer == slice(b, local.startsAt, local.startsAt + size)
             IN  IF local.compressionMethod = 0
                 THEN Returned([blob |-> "stored", buffer |-> buffer])
                 ELSE IF local.compressionMethod = 8
                 THEN Returned([blob |-> "inflated", buffer |-> buffer])
                 ELSE Threw("Unsupported compression method")

extractByFileName(b, r, name, useCD) ==
    LET entry == entryByFileName(r, name, useCD) IN
    IF entry = Undefined THEN Returned(Undefined) ELSE extract(b, entry)

----------------------------------------------------------------------------
(* The state machine: new ZipReader(buffer), then calls of read(), read(true), *)
(* entryByFileName, extractByFileName and extract, one at a time.              *)

Reader ==
    [index |-> index, localFiles |-> localFiles, centralDirectories |-> centralDirectories,
     endOfCentralDirectory |-> endOfCentralDirectory, backwardIndex |-> backwardIndex,
     hotSpot |-> hotSpot, pc |-> pc, error |-> ""]

Names == {<<98>>, <<122>>}

\* a boolean parameter as the caller passes it, and its value given its default
Arguments == {"omitted", "true", "false"}
Given(argument, default) == IF argument = "omitted" THEN default ELSE argument = "true"

Init ==
    /\ arch \in Archives
    /\ buf = Build(arch)
    /\ index = 0
    /\ localFiles = <<>>
    /\ centralDirectories = <<>>
    /\ endOfCentralDirectory = Undefined
    /\ backwardIndex = NoIndex
    /\ pc = "idle"
    /\ useCentralDirectory = FALSE
    /\ hotSpot = 0
    /\ ret = [op |-> "new"]
    /\ log = <<>>

\* the reader becomes q; a read() that ended is logged with what it left
Become(q, useCD) ==
    /\ index' = q.index
    /\ localFiles' = q.localFiles
    /\ centralDirectories' = q.centralDirectories
    /\ endOfCentralDirectory' = q.endOfCentralDirectory
    /\ backwardIndex' = q.backwardIndex
    /\ hotSpot' = q.hotSpot
    /\ pc' = q.pc
    /\ IF q.pc = "idle"
       THEN /\ ret' = [op |-> "read", threw |-> q.error # "", error |-> q.error]
            /\ log' = Append(log, [useCentralDirectory |-> useCD,
                                   threw |-> q.error # "", index |-> q.index,
                                   localFiles |-> q.localFiles,
                                   centralDirectories |-> q.centralDirectories,
                                   endOfCentralDirectory |-> q.endOfCentralDirectory])
       ELSE /\ ret' = [op |-> "read"]
            /\ log' = log

\* read(useCD) up to the first test of the forward loop
Read(argument) ==
    LET useCD == Given(argument, FALSE) IN
    /\ pc = "idle"
    /\ Len(log) < MaxReads
    /\ useCentralDirectory' = useCD
    /\ Become(Continue(IF useCD THEN [Reader EXCEPT !.index = 0, !.localFiles = <<>>]
                                ELSE Reader, "scan"), useCD)
    /\ UNCHANGED <<arch, buf>>

ScanStep ==
    /\ pc = "scan"
    /\ Become(scanStep(buf, Reader, useCentralDirectory), useCentralDirectory)
    /\ UNCHANGED <<arch, buf, useCentralDirectory>>

HotSpotStep ==
    /\ pc = "hot"
    /\ Become(hotSpotStep(buf, Reader), useCentralDirectory)
    /\ UNCHANGED <<arch, buf, useCentralDirectory>>

BruteStep ==
    /\ pc = "brute"
    /\ Become(bruteStep(buf, Reader), useCentralDirectory)
    /\ UNCHANGED <<arch, buf, useCentralDirectory>>

\* a call that only reads the reader: one is made after new or after a read()
Calling == pc = "idle" /\ ret.op \in {"new", "read"}

Frame ==
    UNCHANGED <<arch, buf, index, localFiles, centralDirectories, endOfCentralDirectory,
                backwardIndex, pc, useCentralDirectory, hotSpot, log>>

EntryByFileName(name, argument) ==
    /\ Calling
    /\ ret' = [op |-> "entryByFileName", name |-> name, argument |-> argument,
               value |-> entryByFileName(Reader, name, Given(argument, TRUE))]
    /\ Frame

ExtractByFileName(name, argument) ==
    /\ Calling
    /\ ret' = [op |-> "extractByFileName", name |-> name, argument |-> argument,
               result |-> extractByFileName(buf, Reader, name, Given(argument, TRUE))]
    /\ Frame

Extract(entry) ==
    /\ Calling
    /\ ret' = [op |-> "extract", entry |-> entry, result |-> extract(buf, entry)]
    /\ Frame

Entries == {localFiles[i] : i \in DOMAIN localFiles}
           \cup {centralDirectories[i] : i \in DOMAIN centralDirectories}

Next ==
    \/ \E argument \in Arguments : Read(argument)
    \/ ScanStep
    \/ HotSpotStep
    \/ BruteStep
    \/ \E name \in Names, argument \in Arguments : EntryByFileName(name, argument)
    \/ \E name \in Names, argument \in Arguments : ExtractByFileName(name, argument)
    \/ \E entry \in Entries : Extract(entry)

Spec == Init /\ [][Next]_vars

\* get entries()
entries == localFiles

----------------------------------------------------------------------------
(* What the claims speak of *)

\* a new reader at the first test of the forward loop, and that loop run to its end
Fresh ==
    [index |-> 0, localFiles |-> <<>>, centralDirectories |-> <<>>,
     endOfCentralDirectory |-> Undefined, backwardIndex |-> NoIndex,
     hotSpot |-> 0, pc |-> "scan", error |-> ""]

ForwardScan == run(buf, Fresh, FALSE, {"scan"})

\* the forward scan of the first read() ended without decoding an EOCD record
ScanFoundNoEnd == ForwardScan.error = "" /\ ForwardScan.endOfCentralDirectory = Undefined

\* a normal read() has ended on a new reader
AfterFirstRead == pc = "idle" /\ Len(log) = 1 /\ ~log[1].useCentralDirectory

\* two calls of read() have ended, the first a normal one
AfterSecondRead(useCD) ==
    pc = "idle" /\ Len(log) = 2 /\ ~log[1].useCentralDirectory
    /\ log[2].useCentralDirectory = useCD

Intact == arch.damage = "none"
Upfront == \A i \in DOMAIN arch.ents : ~Member(arch, i).deferred

\* the headers the encoder wrote, decoded where it wrote them
HeaderAt(i) == readLocalFile(buf, MemberOffset(arch, i)).val

RECURSIVE CentralAt(_)
CentralAt(i) ==
    readCentralDirectory(buf,
        IF i = 1 THEN CentralOffset(arch)
        ELSE CentralAt(i - 1).readAt + CentralAt(i - 1).totalLength).val

EndRecord == readEndCentralDirectory(buf, EndOffset(arch)).val

DescriptorOf(i) ==
    [crc |-> Member(arch, i).crc, compressedSize |-> Member(arch, i).csize,
     uncompressedSize |-> Member(arch, i).usize2]

Sizes(e) ==
    [crc |-> e.crc, compressedSize |-> e.compressedSize,
     uncompressedSize |-> e.uncompressedSize]

Listing(files) ==
    [i \in DOMAIN files |-> [fileName |-> files[i].fileName] @@ Sizes(files[i])]

----------------------------------------------------------------------------
(* C1: after one read() of an archive of N >= 1 members that all declare   *)
(* their sizes, laid out as headers and data, central directory, EOCD with *)
(* an empty comment, entries is the list of the N local headers in file    *)
(* order.                                                                  *)
C1_EntriesInFileOrder ==
    (Intact /\ arch.comment = 0 /\ arch.ents # <<>> /\ Upfront /\ AfterFirstRead)
        => entries = [i \in DOMAIN arch.ents |-> HeaderAt(i)]

(* C2 as stated: after a normal read() of an archive of one member with    *)
(* bit 3 set, the entry carries the Data Descriptor's sizes and crc.       *)
OneDeferred == Intact /\ Len(arch.ents) = 1 /\ Member(arch, 1).deferred

C2_DescriptorAfterRead ==
    (OneDeferred /\ AfterFirstRead)
        => Len(localFiles) = 1 /\ Sizes(localFiles[1]) = DescriptorOf(1)

(* C2 as amended: after a normal read() the entry still carries the local  *)
(* header's placeholders and is not marked enriched; when that read() has  *)
(* collected the member's central-directory record and the header's        *)
(* compressedSize is 0, a following read(true) gives the entry the Data    *)
(* Descriptor's compressedSize, uncompressedSize and crc.                  *)
C2_DescriptorAfterRescan ==
    OneDeferred =>
        /\ AfterFirstRead =>
              /\ Len(localFiles) = 1
              /\ Sizes(localFiles[1]) = Sizes(HeaderAt(1))
              /\ ~localFiles[1].enrichedByDataDescriptor
        /\ ( /\ AfterSecondRead(TRUE)
             /\ HeaderAt(1).compressedSize = 0
             /\ log[1].centralDirectories # <<>>
             /\ log[1].centralDirectories[1].fileName = HeaderAt(1).fileName
             /\ log[1].centralDirectories[1].compressedSize = Member(arch, 1).csize )
           => /\ Len(localFiles) = 1
              /\ Sizes(localFiles[1]) = DescriptorOf(1)
              /\ localFiles[1].enrichedByDataDescriptor

C2_Witness ==
    /\ OneDeferred /\ AfterSecondRead(TRUE)
    /\ Sizes(log[1].localFiles[1]) = Sizes(HeaderAt(1))
    /\ Sizes(localFiles[1]) = DescriptorOf(1)
    /\ DescriptorOf(1) # Sizes(HeaderAt(1))

(* C3: when the forward scan of a normal read() ends without an EOCD       *)
(* record and the buffer ends with an EOCD record with empty comment whose *)
(* centralDirectoryOffset starts a run of central headers that ends at the *)
(* record, then after read() endOfCentralDirectory is that record and the  *)
(* central-directory list is those headers in order.                       *)
C3_LocatedAtTail ==
    (Intact /\ arch.comment = 0 /\ arch.ents # <<>> /\ AfterFirstRead /\ ScanFoundNoEnd)
        => /\ endOfCentralDirectory = EndRecord
           /\ centralDirectories = [i \in DOMAIN arch.ents |-> CentralAt(i)]

(* C4: when the EOCD record carries a comment of n >= 1 bytes and the      *)
(* forward scan did not decode it, the probe at length-22 fails and a      *)
(* later probe succeeds: after read() endOfCentralDirectory is the record. *)
C4_LocatedBeforeComment ==
    (Intact /\ arch.comment >= 1 /\ AfterFirstRead /\ ScanFoundNoEnd)
        => /\ ~heuristicsCentralDirectorySearch(buf, ForwardScan,
                                                byteLength(buf) - HotSpotTail).found
           /\ endOfCentralDirectory = EndRecord

(* C5: a second normal read() on a new reader throws or leaves the local   *)
(* entries, the central-directory list and the EOCD record as the first    *)
(* call left them.                                                         *)
C5_SecondReadIdle ==
    AfterSecondRead(FALSE)
        => \/ log[2].threw
           \/ /\ log[2].localFiles = log[1].localFiles
              /\ log[2].centralDirectories = log[1].centralDirectories
              /\ log[2].endOfCentralDirectory = log[1].endOfCentralDirectory

(* C6: when every member declares its sizes, the local entries of the      *)
(* plain forward scan and those of read(true) are the same list of names,  *)
(* sizes and crcs.                                                         *)
C6_SameListing ==
    (Intact /\ Upfront /\ AfterSecondRead(TRUE))
        => Listing(log[2].localFiles) = Listing(log[1].localFiles)

(* C7: from the same reader, the hot-spot loop alone and the backward loop *)
(* alone leave the same EOCD record and the same central-directory list.   *)
C7_SameLocation ==
    (pc = "hot" /\ hotSpot = 0 /\ Intact /\ arch.pad = 0)
        => LET hot == run(buf, Reader, FALSE, {"hot"})
               brute == run(buf, afterHotSpots(buf, Reader), FALSE, {"brute"})
           IN  /\ hot.endOfCentralDirectory = brute.endOfCentralDirectory
               /\ hot.centralDirectories = brute.centralDirectories

(* C8: extract() of an entry whose compression method (that of the local   *)
(* header the entry is or points to, which is the one extract() reads) is  *)
(* neither 0 nor 8 throws "Unsupported compression method", returns no     *)
(* Blob, and leaves the cursor, both lists and the EOCD record as they     *)
(* were.                                                                   *)
Extracted(r) ==
    IF r.op = "extract" THEN r.entry
    ELSE IF r.op = "extractByFileName"
         THEN entryByFileName(Reader, r.name, r.argument # "false")
    ELSE Undefined

LocalOf(entry) ==
    IF entry.structType = "centralDirectory" THEN readLocalFile(buf, entry.offset)
    ELSE Returned(entry)

Unsupported(entry) ==
    /\ entry # Undefined
    /\ ~LocalOf(entry).threw
    /\ LocalOf(entry).val.compressionMethod \notin {0, 8}

C9_StoredLength ==
    (ret.op = "extract" /\ ~ret.result.threw /\ ret.result.val.blob = "stored")
        => /\ ret.result.val.buffer.size = ret.entry.uncompressedSize
           /\ ret.result.val.buffer.size = ret.entry.compressedSize

(* C10: entryByFileName searches the central-directory list unless its     *)
(* second argument is false, then the local entries, and returns the first *)
(* entry of the list whose fileName is the name, or undefined;             *)
(* extractByFileName returns undefined, without throwing, when there is    *)
(* none.                                                                   *)
Searched(r) == IF r.argument = "false" THEN localFiles ELSE centralDirectories

Hits(r) == {i \in DOMAIN Searched(r) : Searched(r)[i].fileName = r.name}

C10_FirstByName ==
    /\ ret.op = "entryByFileName" =>
          IF Hits(ret) = {} THEN ret.value = Undefined
          ELSE \E i \in Hits(ret) :
                  /\ \A j \in Hits(ret) : i <= j
                  /\ ret.value = Searched(ret)[i]
    /\ (ret.op = "extractByFileName" /\ Hits(ret) = {})
          => ret.result = Returned(Undefined)

C10_Witness ==
    /\ ret.op = "entryByFileName"
    /\ ret.argument = "omitted"
    /\ Cardinality(Hits(ret)) >= 2
    /\ \E i, j \in Hits(ret) : Searched(ret)[i] # Searched(ret)[j]
    /\ centralDirectories # localFiles

----------------------------------------------------------------------------
(* One pass of the forward loop, as the claims below speak of it *)

\* the forward loop is about to read this signature at the cursor
Seen(signature) ==
    pc = "scan" /\ Scanning(buf, Reader) /\ getUint32(buf, index) = signature

\* a normal read() is the last call that ended
AfterNormalRead == pc = "idle" /\ log # <<>> /\ ~Last(log).useCentralDirectory

LocalHere == readLocalFile(buf, index)
DescriptorHere == readDataDescriptor(buf, index)

(* C11: no call of read() raises, whatever the buffer holds and however    *)
(* long it is: every read() that ended returned.                           *)
C11_NeverRaises == \A i \in DOMAIN log : ~log[i].threw

(* C12: each time the forward loop decodes a Local File Header at cursor c *)
(* whose bit 3 is clear, it appends the entry to the local entries and the *)
(* cursor becomes c + header length + compressedSize.                      *)
C12_AdvanceLocal ==
    [][(Seen(LocalFileSignature) /\ ~LocalHere.threw
            /\ ~LocalHere.val.needsDataDescriptor)
        => /\ localFiles' = Append(localFiles, LocalHere.val)
           /\ index' = index + LocalHere.val.totalLength
                             + LocalHere.val.compressedSize]_vars

(* C13: in read(true), when the forward loop decodes at cursor c a local   *)
(* header of length h with bit 3 set, the scan goes on with the next       *)
(* signature (the jump is defined, with or without a central-directory     *)
(* entry of that name), and when the central-directory list holds an entry *)
(* of that name with compressedSize s the cursor becomes c + h + s.        *)
C13_JumpByCentralSize ==
    [][(Seen(LocalFileSignature) /\ useCentralDirectory /\ ~LocalHere.threw
            /\ LocalHere.val.needsDataDescriptor)
        => /\ pc' = "scan"
           /\ LET cd == entryByFileName(Reader, LocalHere.val.fileName, TRUE) IN
              cd # Undefined
                  => index' = index + LocalHere.val.totalLength + cd.compressedSize]_vars

(* C14: after a normal read() that returned, no two entries of the         *)
(* central-directory list were decoded from the same offset of the buffer. *)
C14_NoDuplicates ==
    (AfterNormalRead /\ ~Last(log).threw)
        => \A i, j \in DOMAIN centralDirectories :
              i # j => centralDirectories[i].readAt # centralDirectories[j].readAt

(* C15: in every state, every local entry satisfies                        *)
(* startsAt + compressedSize <= the length of the buffer (compressedSize   *)
(* being the Data Descriptor's once the entry was patched).                *)
C15_WithinBuffer ==
    \A i \in DOMAIN localFiles :
        localFiles[i].startsAt + localFiles[i].compressedSize <= byteLength(buf)

(* C16: read(true) starts with the cursor at 0 and the local entries       *)
(* empty; no step of it changes the central-directory list or the EOCD     *)
(* record or enters the hot-spot or backward loop; and on a Central        *)
(* Directory Header signature it returns with the cursor still at that     *)
(* header and the local entries as they were.                              *)
C16_Rescan ==
    [][/\ (pc = "idle" /\ pc' = "scan" /\ useCentralDirectory')
              => /\ index' = 0
                 /\ localFiles' = <<>>
                 /\ UNCHANGED <<centralDirectories, endOfCentralDirectory>>
       /\ (pc = "scan" /\ useCentralDirectory)
              => /\ UNCHANGED <<centralDirectories, endOfCentralDirectory,
                                backwardIndex, hotSpot>>
                 /\ pc' \in {"scan", "idle"}
       /\ (Seen(CentralDirectorySignature) /\ useCentralDirectory)
              => /\ pc' = "idle"
                 /\ ~ret'.threw
                 /\ UNCHANGED <<index, localFiles>>]_vars

C16_Witness ==
    /\ pc = "idle" /\ Len(log) = 2
    /\ ~log[1].useCentralDirectory /\ log[2].useCentralDirectory /\ ~log[2].threw
    /\ log[1].index > index
    /\ Scanning(buf, Reader) /\ getUint32(buf, index) = CentralDirectorySignature
    /\ localFiles # <<>>
    /\ centralDirectories # <<>> /\ centralDirectories = log[1].centralDirectories
    /\ endOfCentralDirectory # Undefined
    /\ endOfCentralDirectory = log[1].endOfCentralDirectory

----------------------------------------------------------------------------
(* The locator, as the claims below speak of it *)

\* the offset the hot-spot loop or the backward loop validates next
Candidate == IF pc = "hot" THEN hotSpots(buf)[hotSpot + 1] ELSE backwardIndex

EndAt(p) == readEndCentralDirectory(buf, p)

\* the three checks of a candidate offset
SignatureAt(p) == InBounds(buf, p, 4) /\ getUint32(buf, p) = EndOfCentralDirectorySignature

LengthAt(p) == ~EndAt(p).threw /\ 22 + EndAt(p).val.commentLength = byteLength(buf) - p

CentralAtOffsetOf(p) ==
    /\ InBounds(buf, EndAt(p).val.centralDirectoryOffset, 4)
    /\ getUint32(buf, EndAt(p).val.centralDirectoryOffset) = CentralDirectorySignature

Valid(p) == SignatureAt(p) /\ LengthAt(p) /\ CentralAtOffsetOf(p)

(* C17: a pass of the hot-spot loop or of the backward loop stores an EOCD *)
(* record only when its candidate offset p passes all three checks (the    *)
(* EOCD signature at p, 22 + commentLength = buffer length - p, the        *)
(* Central Directory Header signature at centralDirectoryOffset), and then *)
(* the record stored is the one decoded at p; a candidate that fails a     *)
(* check leaves the EOCD record and the central-directory list unchanged.  *)
C17_StoreOnlyValidated ==
    [][(pc = "hot" \/ pc = "brute")
        => /\ (endOfCentralDirectory' # endOfCentralDirectory)
                  => (Valid(Candidate) /\ endOfCentralDirectory' = EndAt(Candidate).val)
           /\ (~Valid(Candidate))
                  => UNCHANGED <<endOfCentralDirectory, centralDirectories>>]_vars

\* the backward loop has stored the record after the hot spot failed
C17_Witness ==
    /\ AfterFirstRead /\ ~Last(log).threw /\ ScanFoundNoEnd
    /\ endOfCentralDirectory # Undefined
    /\ endOfCentralDirectory.readAt = backwardIndex
    /\ endOfCentralDirectory.commentLength >= 1
    /\ ~SignatureAt(byteLength(buf) - HotSpotTail)
    /\ centralDirectories # <<>>

\* a normal read() returns at this step without an EOCD record
EndsUnlocated ==
    /\ pc # "idle" /\ pc' = "idle" /\ ~useCentralDirectory
    /\ ~ret'.threw /\ endOfCentralDirectory' = Undefined

\* the backward loop starts at length - 23, goes down one offset per pass and
\* leaves at the first candidate that passes the three checks
BackwardOrder ==
    /\ (pc # "brute" /\ pc' = "brute")
           => backwardIndex' = byteLength(buf) - BruteForceTail
    /\ pc = "brute"
           => /\ backwardIndex <= byteLength(buf) - BruteForceTail
              /\ UNCHANGED index
              /\ Valid(Candidate) => pc' = "idle"
              /\ pc' = "brute" => backwardIndex' = backwardIndex - 1

(* C18: the backward loop validates the offsets from length - 23 down to  *)
(* and including the cursor, in decreasing order, leaves at the first that *)
(* validates and validates none below the cursor: when it runs out of      *)
(* candidates, the cursor was the last one validated.                      *)
C18_DownToCursor ==
    [][/\ BackwardOrder
       /\ pc = "brute" => backwardIndex >= index
       /\ EndsUnlocated => backwardIndex' < index']_vars

(* C19: in a normal read(), the pass of the forward loop that decodes a    *)
(* local header with bit 3 set appends the entry and leaves the forward    *)
(* loop without changing the central-directory list or the EOCD record;    *)
(* the loops that follow change neither the local entries nor the cursor.  *)
C19_HaltAtDeferred ==
    [][/\ (Seen(LocalFileSignature) /\ ~useCentralDirectory /\ ~LocalHere.threw
               /\ LocalHere.val.needsDataDescriptor)
              => /\ localFiles' = Append(localFiles, LocalHere.val)
                 /\ pc' # "scan"
                 /\ UNCHANGED <<centralDirectories, endOfCentralDirectory>>
       /\ (pc = "hot" \/ pc = "brute")
              => (pc' # "scan" /\ UNCHANGED <<localFiles, index>>)]_vars

\* the forward loop has just stopped at the first of several members
C19_Witness ==
    /\ pc = "hot" /\ ~useCentralDirectory /\ log = <<>>
    /\ Intact /\ Len(arch.ents) >= 2
    /\ Len(localFiles) = 1 /\ localFiles[1].needsDataDescriptor
    /\ ~localFiles[1].enrichedByDataDescriptor
    /\ centralDirectories = <<>> /\ endOfCentralDirectory = Undefined

(* C20: the pass of the forward loop that sees the Data Descriptor         *)
(* signature decodes the descriptor, gives its crc, compressedSize and     *)
(* uncompressedSize to the last local entry and marks that entry enriched, *)
(* changes no other field of it, no other local entry, nothing of the      *)
(* central-directory list or the EOCD record, and moves the cursor on by   *)
(* the 16 bytes of the descriptor.                                         *)
C20_PatchLast ==
    [][Seen(DataDescriptorSignature)
        => /\ ~DescriptorHere.threw
           /\ localFiles # <<>>
           /\ localFiles' =
                 [localFiles EXCEPT ![Len(localFiles)] =
                     [@ EXCEPT !.crc = DescriptorHere.val.crc,
                               !.compressedSize = DescriptorHere.val.compressedSize,
                               !.uncompressedSize = DescriptorHere.val.uncompressedSize,
                               !.enrichedByDataDescriptor = TRUE]]
           /\ index' = index + 16
           /\ UNCHANGED <<centralDirectories, endOfCentralDirectory>>]_vars

----------------------------------------------------------------------------
(* Termination.  A running read() is at one of its three loops and its     *)
(* next pass is step(buf, Reader, useCentralDirectory): the actions        *)
(* ScanStep, HotSpotStep and BruteStep are that pass.                      *)

AfterStep == step(buf, Reader, useCentralDirectory)

\* a number that bounds the passes a read() still makes: the backward loop has
\* at most backwardIndex left, the hot-spot loop the hot spots not yet tried and
\* then the backward loop, the forward loop the bytes above the cursor and then
\* the locator
Rank(b, r) ==
    CASE r.pc = "idle" -> 0
      [] r.pc = "brute" -> r.backwardIndex
      [] r.pc = "hot" -> byteLength(b) + Len(hotSpots(b)) - r.hotSpot
      [] r.pc = "scan" -> byteLength(b) + 3
                          + (IF r.index < byteLength(b) THEN byteLength(b) - r.index ELSE 0)

\* the central-directory entries a pass appends: their readAt are the read
\* offsets of the locator's walk
Walked(r, q) ==
    SubSeq(q.centralDirectories, Len(r.centralDirectories) + 1, Len(q.centralDirectories))

\* the walk starts at the record's centralDirectoryOffset, each read offset is
\* the one before plus the length decoded there, which is more, and all are
\* below the EOCD offset; a walk that did not throw went on up to that offset
WalkRises(r, q) ==
    LET W == Walked(r, q) IN
    W # <<>>
        => /\ W[1].readAt = q.endOfCentralDirectory.centralDirectoryOffset
           /\ \A i \in DOMAIN W :
                 /\ W[i].readAt < Candidate
                 /\ i > 1 => /\ W[i].readAt > W[i - 1].readAt
                             /\ W[i].readAt = W[i - 1].readAt + W[i - 1].totalLength
           /\ q.error = "" => Last(W).readAt + Last(W).totalLength >= Candidate

(* C21: every read() ends, in either mode and on every buffer: a pass of   *)
(* the forward loop that stays in the loop leaves the cursor higher than   *)
(* it was, the locator's walk of the central directory reads at strictly   *)
(* rising offsets up to the EOCD offset, a pass of the backward loop that  *)
(* stays in the loop leaves backwardIndex lower and still above the        *)
(* cursor, and every pass of a running read() lowers a natural number that *)
(* is 0 only when read() has returned or thrown.                           *)
C21_Terminates ==
    pc # "idle"
        => /\ Rank(buf, Reader) \in Nat /\ Rank(buf, AfterStep) \in Nat
           /\ Rank(buf, AfterStep) < Rank(buf, Reader)
           /\ (pc = "scan" /\ AfterStep.pc = "scan") => AfterStep.index > index
           /\ (pc = "hot" \/ pc = "brute") => WalkRises(Reader, AfterStep)
           /\ (pc = "brute" /\ AfterStep.pc = "brute")
                  => /\ AfterStep.backwardIndex < backwardIndex
                     /\ AfterStep.backwardIndex > AfterStep.index

\* after two passes of the forward loop and the hot spot, the backward loop is
\* at the pass that finds the EOCD record and walks two central headers
C21_Witness ==
    /\ pc = "brute" /\ ~useCentralDirectory
    /\ Len(localFiles) >= 2 /\ index > 0
    /\ AfterStep.pc = "idle" /\ AfterStep.error = ""
    /\ Len(Walked(Reader, AfterStep)) >= 2
    /\ Rank(buf, Reader) > 0

====
